---------------------------- MODULE Spec2Model ----------------------------
(***************************************************************************)
(* A model of langchain_weaviate/vectorstores.py: WeaviateVectorStore.     *)
(*                                                                         *)
(* The store is a thin adapter over a remote vector database.  The model   *)
(* has four machines (delete, retrieval, ingestion, concurrent ingestion); *)
(* a machine that a specification does not exercise stays idle.            *)
(*                                                                         *)
(*   SpecDelete     delete(ids), one service request per step              *)
(*   SpecRetrieval  the five retrieval operations, MMR re-ranking          *)
(*   SpecQuery      the same operations, inputs ranging over the keyword   *)
(*                  arguments of _build_query_obj                          *)
(*   Spec           add_texts and from_texts, one call per step            *)
(*   SpecConc       two add_texts calls sharing the client's batch         *)
(*                                                                         *)
(* An optional Python value is a sequence: <<>> when absent, <<v>> when    *)
(* supplied with value v.                                                  *)
(***************************************************************************)
EXTENDS Integers, Sequences, FiniteSets, TLC

VARIABLES
    \* ---- delete ----
    delArg,      \* the ids argument of delete: <<>> (None) or <<list>>
    delPc,       \* "idle", "loop", "returned", "raised", "failed"
    delIdx,      \* position of the for loop in ids (1-based)
    delLog,      \* the ids of the delete requests issued, in order
    delErr,      \* the error the call ended with, "" when none
    remote,      \* ids of the objects the remote index holds
    remote0,     \* remote when delete was called
    \* ---- retrieval ----
    hasEmbedding,\* whether self._embedding is configured
    svc,         \* the service: its ranked pool and the shape of its answer
    call,        \* the caller's arguments: embedding, k, fetch_k, lambda, kwargs
    rpc,         \* "idle", "done"
    sent,        \* the queries sent to the service, in order
    out,         \* the finished operation: name, outcome, documents, ...
    \* ---- ingestion ----
    icall,       \* the caller's arguments: texts, metadatas, uuids, ids
    ipc,         \* "idle", "done"
    indexExists, \* whether the service holds the index (class)
    created,     \* number of create_class requests issued
    batch,       \* client.batch: the objects accumulated and not yet flushed
    flushed,     \* the insertion requests sent, each a sequence of objects
    uuidCtr,     \* number of uuid4() values drawn so far
    iout,        \* the finished call: name, outcome, returned ids
    \* ---- concurrent add_texts ----
    tpc,         \* per call: "start", "loop", "exit", "returned"
    tpos,        \* per call: number of texts already added to the batch
    tids         \* per call: the ids list built so far

delVars  == <<delArg, delPc, delIdx, delLog, delErr, remote, remote0>>
retVars  == <<svc, call, rpc, sent, out>>
ingVars  == <<icall, ipc, indexExists, created, iout>>
batVars  == <<batch, flushed, uuidCtr>>
concVars == <<tpc, tpos, tids>>
vars     == <<delVars, hasEmbedding, retVars, ingVars, batVars, concVars>>

\* What each machine leaves alone.
notDel  == <<hasEmbedding, retVars, ingVars, batVars, concVars>>
notRet  == <<hasEmbedding, delVars, ingVars, batVars, concVars>>
notIng  == <<hasEmbedding, delVars, retVars, concVars>>
notConc == <<hasEmbedding, delVars, retVars, icall, ipc, indexExists, created, iout>>

---------------------------------------------------------------------------
\* Bounds of the model.
MaxIds   == 3      \* longest ids list given to delete
MaxPool  == 3      \* most candidates the service holds
MaxK     == 3      \* largest k (and fetch_k) requested
MaxTexts == 2      \* most texts in one add_texts / from_texts call

\* Optional values.
None       == <<>>
Some(v)    == <<v>>
IsSome(o)  == o /= <<>>
Get(o)     == o[1]

SeqsUpTo(S, n) == UNION {[1..m -> S] : m \in 0..n}
Min(a, b)  == IF a <= b THEN a ELSE b
Range(s)   == {s[i] : i \in DOMAIN s}

---------------------------------------------------------------------------
\* delete (vectorstores.py 454-466)

Uuids == {"u1", "u2", "u3"}

DelIdle ==
    /\ delArg = None /\ delPc = "off" /\ delIdx = 0 /\ delLog = <<>>
    /\ delErr = "" /\ remote = {} /\ remote0 = {}

\* Mutant: the guard tests falsiness, so the empty list raises as well.
NoIdsGivenFalsy(ids) == ids = None \/ Get(ids) = <<>>

\* line 461: `if ids is None`
NoIdsGiven(ids) == ids = None

\* Mutant: a failed request is swallowed and the loop goes on.
AfterRequestSwallow(ok) == "loop"

\* line 466: the request either returns (the loop goes on) or raises
\* (the exception leaves delete).
AfterRequest(ok) == IF ok THEN "loop" ELSE "failed"

\* data_object.delete(uuid=id) at the service: on success the object is gone.
ServiceDelete(objs, id, ok) == IF ok THEN objs \ {id} ELSE objs

\* lines 461-462: entering delete.
DeleteCall ==
    /\ delPc = "idle"
    /\ IF NoIdsGiven(delArg)
         THEN delPc' = "raised" /\ delErr' = "NoIdsProvided"
         ELSE delPc' = "loop" /\ delErr' = ""
    /\ delIdx' = 1
    /\ UNCHANGED <<delArg, delLog, remote, remote0>>
    /\ UNCHANGED notDel

\* lines 465-466: one iteration of the loop, one request to the service.
DeleteOne ==
    /\ delPc = "loop"
    /\ delIdx <= Len(Get(delArg))
    /\ \E ok \in BOOLEAN :
         /\ remote' = ServiceDelete(remote, Get(delArg)[delIdx], ok)
         /\ delPc' = AfterRequest(ok)
         /\ delErr' = IF ok THEN "" ELSE "ServiceError"
         /\ delIdx' = IF delPc' = "loop" THEN delIdx + 1 ELSE delIdx
    /\ delLog' = Append(delLog, Get(delArg)[delIdx])
    /\ UNCHANGED <<delArg, remote0>>
    /\ UNCHANGED notDel

\* line 465: the loop is exhausted, delete returns None.
DeleteReturn ==
    /\ delPc = "loop"
    /\ delIdx > Len(Get(delArg))
    /\ delPc' = "returned"
    /\ UNCHANGED <<delArg, delIdx, delLog, delErr, remote, remote0>>
    /\ UNCHANGED notDel

DeleteNext == DeleteCall \/ DeleteOne \/ DeleteReturn

---------------------------------------------------------------------------
\* Vector arithmetic and MMR selection (langchain_weaviate/utils.py, which
\* vectorstores.py imports at line 24).  Embeddings are integer vectors of
\* norm 0, 1 or 5, so that every cosine is an exact multiple of 1/25;
\* a similarity s stands for s/25 and lambda_mult l for l/10.  All
\* embeddings of an index have one dimension, so no length mismatch arises.

Vecs == {<<1, 0>>, <<4, 3>>, <<-1, 0>>, <<0, 0>>}
QueryVecs == {<<1, 0>>, <<4, 3>>, <<0, 0>>}
Lambdas == {0, 5, 10}
CosUnit == 5 * 5
LambdaOne == 2 * 5

RECURSIVE Dot(_, _)
Dot(a, b) == IF a = <<>> THEN 0 ELSE Head(a) * Head(b) + Dot(Tail(a), Tail(b))

Norm(a) == CHOOSE r \in 0..Dot(a, a) : r * r = Dot(a, a)

\* 0 when either vector has zero norm.
cosineSimilarity(a, b) ==
    IF Norm(a) = 0 \/ Norm(b) = 0 THEN 0
    ELSE (CosUnit * Dot(a, b)) \div (Norm(a) * Norm(b))

similarityToQuery(q, cands) ==
    [i \in DOMAIN cands |-> cosineSimilarity(q, cands[i])]

\* The highest-scoring index of S, the lowest index among ties.
argmax(S, score) ==
    CHOOSE i \in S : \A j \in S :
        score[i] > score[j] \/ (score[i] = score[j] /\ i <= j)

MaxOf(S) == CHOOSE m \in S : \A x \in S : x <= m

redundancy(cands, selected, i) ==
    MaxOf({cosineSimilarity(cands[i], cands[selected[j]]) : j \in DOMAIN selected})

mmrScore(sim, cands, selected, lam, i) ==
    lam * sim[i] - (LambdaOne - lam) * redundancy(cands, selected, i)

RECURSIVE mmrLoop(_, _, _, _, _)
mmrLoop(sim, cands, selected, k, lam) ==
    LET remaining == DOMAIN cands \ Range(selected) IN
    IF Len(selected) >= k \/ remaining = {} THEN selected
    ELSE LET score == [i \in remaining |-> mmrScore(sim, cands, selected, lam, i)]
         IN  mmrLoop(sim, cands, Append(selected, argmax(remaining, score)), k, lam)

\* maximal_marginal_relevance(query_embedding, embedding_list, lambda_mult, k)
maximal_marginal_relevance(q, cands, lam, k) ==
    IF cands = <<>> \/ k <= 0 THEN <<>>
    ELSE LET sim == similarityToQuery(q, cands)
         IN  mmrLoop(sim, cands, <<argmax(DOMAIN cands, sim)>>, k, lam)

---------------------------------------------------------------------------
\* Query construction (vectorstores.py 96-125).  A query object is a record
\* of what the builder methods were given.

KwargNames == {"where_filter", "tenant", "additional", "limit",
               "query", "alpha", "vector", "properties", "fusion_type"}
HybridArgs == {"query", "alpha", "vector", "properties", "fusion_type"}

NoKwargs == [n \in KwargNames |-> None]

\* The value of each keyword argument that Python treats as false:
\* 0 for numbers, "" for strings, the empty list for lists.
FalsyOf(name) ==
    CASE name \in {"limit", "alpha"} -> 0
      [] name \in {"additional", "vector", "properties"} -> <<>>
      [] OTHER -> ""

\* `if kwargs.get(kwarg)` (lines 114, 120): the argument is supplied and
\* its value is not false.
Truthy(name, o) == IsSome(o) /\ Get(o) /= FalsyOf(name)

\* line 111: client.query.get(index_name, query_attrs)
EmptyQuery ==
    [where |-> None, tenant |-> None, additional |-> {}, limit |-> None,
     hybrid |-> None, near_vector |-> None]

\* lines 102-125
build_query_obj(kw) ==
    LET kept == {a \in HybridArgs : Truthy(a, kw[a])} IN
    [where       |-> IF Truthy("where_filter", kw["where_filter"])
                       THEN kw["where_filter"] ELSE None,
     tenant      |-> IF Truthy("tenant", kw["tenant"]) THEN kw["tenant"] ELSE None,
     additional  |-> IF Truthy("additional", kw["additional"])
                       THEN Range(Get(kw["additional"])) ELSE {},
     limit       |-> IF Truthy("limit", kw["limit"]) THEN kw["limit"] ELSE None,
     hybrid      |-> IF kept /= {}
                       THEN Some([a \in HybridArgs |->
                                    IF a \in kept THEN kw[a] ELSE None])
                       ELSE None,
     near_vector |-> None]

with_additional(q, name) == [q EXCEPT !.additional = @ \cup {name}]
with_near_vector(q, v)   == [q EXCEPT !.near_vector = Some(v)]
with_limit(q, n)         == [q EXCEPT !.limit = Some(n)]

\* f(query=..., limit=..., **kwargs) raises TypeError when kwargs repeats a
\* keyword the call already passes.
Repeats(kw, names) == \E n \in names : IsSome(kw[n])

---------------------------------------------------------------------------
\* The service.  It holds a ranked pool of candidates; a record carries the
\* text property, the page attribute and, when the query asks for
\* additional fields, an _additional entry with exactly those fields.

Shapes == {"ok", "errors", "errors_null"}
ServiceErrors == "E1"

AdditionalValue(name, i, pool) ==
    CASE name = "vector" -> pool[i]
      [] name = "score"  -> <<100 - i>>
      [] OTHER           -> <<i>>

Record(i, pool, q) ==
    LET fields == {"text", "page"} \cup
                  (IF q.additional = {} THEN {} ELSE {"_additional"})
    IN  [f \in fields |->
           CASE f = "text" -> <<"text", i>>
             [] f = "page" -> <<"page", i>>
             [] OTHER      -> [a \in q.additional |-> AdditionalValue(a, i, pool)]]

\* query_obj.do(): the answer to query q.
Respond(q) ==
    LET n == IF IsSome(q.limit) THEN Min(Get(q.limit), Len(svc.pool))
             ELSE Len(svc.pool)
    IN  [errors  |-> svc.shape /= "ok",
         data    |-> svc.shape /= "errors",
         isNull  |-> svc.shape = "errors_null",
         payload |-> IF svc.shape = "ok"
                       THEN [i \in 1..n |-> Record(i, svc.pool, q)]
                       ELSE <<>>]

---------------------------------------------------------------------------
\* Decoding (vectorstores.py 208-212, 223-227, 305-311, 327-332).

Pop(res, key) == [f \in DOMAIN res \ {key} |-> res[f]]

Document(text, meta) == [page_content |-> text, metadata |-> meta]

\* lines 209-211 and 224-226: text = res.pop(text_key); metadata = res
Decode(res) == Document(res["text"], Pop(res, "text"))

DecodeAll(payload) == [i \in DOMAIN payload |-> Decode(payload[i])]

\* Mutant: the whole payload is decoded, whatever was selected.
MmrDocsAll(payload, selected) ==
    [i \in DOMAIN payload |->
        Document(payload[i]["text"], Pop(Pop(payload[i], "text"), "_additional"))]

\* Mutant: the documents are returned in payload order, not selection order.
MmrDocsResorted(payload, selected) ==
    LET idxs == Range(selected)
        nth[n \in 0..Len(selected)] ==
            IF n = 0 THEN 0
            ELSE CHOOSE i \in idxs : i > nth[n - 1] /\ \A j \in idxs : j > nth[n - 1] => i <= j
    IN  [n \in DOMAIN selected |->
           Document(payload[nth[n]]["text"],
                    Pop(Pop(payload[nth[n]], "text"), "_additional"))]

\* lines 305-311: for idx in mmr_selected: pop the text, pop "_additional"
MmrDocs(payload, selected) ==
    [n \in DOMAIN selected |->
        Document(payload[selected[n]]["text"],
                 Pop(Pop(payload[selected[n]], "text"), "_additional"))]

---------------------------------------------------------------------------
\* The retrieval operations (vectorstores.py 181-332).  A result is the
\* record the action stores in out, with the queries it sent.

RetIdle ==
    /\ svc = [pool |-> <<>>, shape |-> "ok"]
    /\ call = [query |-> "", embedding |-> <<>>, k |-> 0, fetch_k |-> 0,
               lambda_mult |-> 0, kwargs |-> NoKwargs]
    /\ rpc = "off" /\ sent = <<>>
    /\ out = [op |-> "", outcome |-> "", errors |-> "", docs |-> <<>>,
              scores |-> <<>>, picked |-> <<>>, payload |-> <<>>]

Raised(kind, errors, queries) ==
    [outcome |-> kind, errors |-> errors, docs |-> <<>>, scores |-> <<>>,
     picked |-> <<>>, payload |-> <<>>, queries |-> queries]

Returned(docs, scores, picked, payload, queries) ==
    [outcome |-> "ok", errors |-> "", docs |-> docs, scores |-> scores,
     picked |-> picked, payload |-> payload, queries |-> queries]

\* lines 181-192.  The result carries the response in payload.
perform_search(query, k, kw) ==
    IF ~hasEmbedding THEN Raised("EmbeddingRequired", "", <<>>)
    ELSE IF Repeats(kw, {"query", "limit", "vector"}) THEN Raised("TypeError", "", <<>>)
    ELSE LET q == build_query_obj([kw EXCEPT !["query"] = Some(query),
                                             !["limit"] = Some(k),
                                             !["vector"] = Some(call.embedding)])
             result == Respond(q)
         IN  IF result.errors THEN Raised("ServiceError", ServiceErrors, <<q>>)
             ELSE Returned(<<>>, <<>>, <<>>, result.payload, <<q>>)

\* lines 207-212
similarity_search(query, k, kw) ==
    LET r == perform_search(query, k, kw) IN
    IF r.outcome /= "ok" THEN r
    ELSE [r EXCEPT !.docs = DecodeAll(r.payload),
                   !.picked = [i \in DOMAIN r.payload |-> i]]

\* lines 322-332
similarity_search_with_score(query, k, kw) ==
    IF Repeats(kw, {"additional"}) THEN Raised("TypeError", "", <<>>)
    ELSE LET r == perform_search(query, k,
                      [kw EXCEPT !["additional"] = Some(<<"score">>)])
         IN  IF r.outcome /= "ok" THEN r
             ELSE [r EXCEPT !.docs = DecodeAll(r.payload),
                            !.scores = [i \in DOMAIN r.payload |->
                                          r.payload[i]["_additional"]["score"]],
                            !.picked = [i \in DOMAIN r.payload |-> i]]

\* lines 218-227
similarity_search_by_vector(embedding, k, kw) ==
    LET q == with_limit(with_near_vector(build_query_obj(kw), embedding), k)
        result == Respond(q)
    IN  IF result.errors THEN Raised("ServiceError", ServiceErrors, <<q>>)
        ELSE Returned(DecodeAll(result.payload), <<>>,
                      [i \in DOMAIN result.payload |-> i], result.payload, <<q>>)

\* lines 290-311.  The response is not tested for errors: without a data
\* entry results["data"] raises KeyError, with a null class the iteration
\* over the payload raises TypeError.
max_marginal_relevance_search_by_vector(embedding, k, fetch_k, lambda_mult, kw) ==
    LET q == with_limit(with_near_vector(
                 with_additional(build_query_obj(kw), "vector"), embedding), fetch_k)
        results == Respond(q)
    IN  IF ~results.data THEN Raised("KeyError", "", <<q>>)
        ELSE IF results.isNull THEN Raised("TypeError", "", <<q>>)
        ELSE LET payload == results.payload
                 embeddings == [i \in DOMAIN payload |->
                                  payload[i]["_additional"]["vector"]]
                 mmr_selected == maximal_marginal_relevance(
                                     embedding, embeddings, lambda_mult, k)
             IN  Returned(MmrDocs(payload, mmr_selected), <<>>,
                          mmr_selected, payload, <<q>>)

\* lines 254-263
max_marginal_relevance_search(query, k, fetch_k, lambda_mult, kw) ==
    IF ~hasEmbedding THEN Raised("EmbeddingRequired", "", <<>>)
    ELSE max_marginal_relevance_search_by_vector(
             call.embedding, k, fetch_k, lambda_mult, kw)

Finish(op, r) ==
    /\ rpc = "idle"
    /\ rpc' = "done"
    /\ sent' = sent \o r.queries
    /\ out' = [op |-> op, outcome |-> r.outcome, errors |-> r.errors,
               docs |-> r.docs, scores |-> r.scores, picked |-> r.picked,
               payload |-> r.payload]
    /\ UNCHANGED <<svc, call>>
    /\ UNCHANGED notRet

SimilaritySearch ==
    Finish("similarity_search",
           similarity_search(call.query, call.k, call.kwargs))

SimilaritySearchWithScore ==
    Finish("similarity_search_with_score",
           similarity_search_with_score(call.query, call.k, call.kwargs))

SimilaritySearchByVector ==
    Finish("similarity_search_by_vector",
           similarity_search_by_vector(call.embedding, call.k, call.kwargs))

MaxMarginalRelevanceSearch ==
    Finish("max_marginal_relevance_search",
           max_marginal_relevance_search(call.query, call.k, call.fetch_k,
                                         call.lambda_mult, call.kwargs))

MaxMarginalRelevanceSearchByVector ==
    Finish("max_marginal_relevance_search_by_vector",
           max_marginal_relevance_search_by_vector(call.embedding, call.k,
               call.fetch_k, call.lambda_mult, call.kwargs))

RetrievalNext ==
    \/ SimilaritySearch
    \/ SimilaritySearchWithScore
    \/ SimilaritySearchByVector
    \/ MaxMarginalRelevanceSearch
    \/ MaxMarginalRelevanceSearchByVector

---------------------------------------------------------------------------
\* Ingestion (vectorstores.py 138-179 and 397-452).

Texts == {"a", "b"}
Plain(n)    == [kind |-> "plain", t |-> n]
Datetime(n) == [kind |-> "datetime", t |-> n]
IsoString(n) == [kind |-> "isostring", t |-> n]

\* The metadata dict of one text: a page number, or a timestamp.
MetaChoices == {[k \in {"page"} |-> Plain(1)], [k \in {"ts"} |-> Datetime(1)]}

\* Ids: those of the uuids argument, those of the ids argument, and the
\* values of uuid4().
CallerIds(arg, n) == [i \in 1..n |-> [src |-> arg, n |-> i]]
uuid4(ctr) == [src |-> "uuid4", n |-> ctr + 1]

\* embed_documents(texts)[i]
EmbedDocument(text) == <<"embedding", text>>

IngIdle ==
    /\ icall = <<>> /\ ipc = "off" /\ indexExists = FALSE /\ created = 0
    /\ iout = [op |-> "", outcome |-> "", ids |-> <<>>, existed |-> FALSE]

BatIdle == batch = <<>> /\ flushed = <<>> /\ uuidCtr = 0

ConcIdle == tpc = <<>> /\ tpos = <<>> /\ tids = <<>>

\* lines 46-49
json_serializable(value) ==
    IF value.kind = "datetime" THEN IsoString(value.t) ELSE value

\* add_texts, lines 156-159
data_properties(c, i) ==
    LET keys == IF IsSome(c.metadatas) THEN DOMAIN Get(c.metadatas)[i] ELSE {}
    IN  [f \in {"text"} \cup keys |->
           IF f \in keys THEN json_serializable(Get(c.metadatas)[i][f])
           ELSE Plain(c.texts[i])]

\* Mutant: the generated id wins over the caller's.
choose_id_generated(c, i, ctr) == uuid4(ctr)

\* add_texts, lines 165-169
choose_id(c, i, ctr) ==
    IF IsSome(c.uuids) THEN Get(c.uuids)[i]
    ELSE IF IsSome(c.ids) THEN Get(c.ids)[i]
    ELSE uuid4(ctr)

\* add_texts, lines 171-177: the object of text i, added by call `by`.
add_texts_object(c, i, ctr, by) ==
    [data_object |-> data_properties(c, i),
     class_name  |-> "Index",
     uuid        |-> choose_id(c, i, ctr),
     vector      |-> IF hasEmbedding THEN Some(EmbedDocument(c.texts[i])) ELSE None,
     tenant      |-> c.tenant,
     by          |-> by]

\* from_texts, lines 418-423: the metadata values are stored as given.
from_texts_properties(c, i) ==
    LET keys == IF IsSome(c.metadatas) THEN DOMAIN Get(c.metadatas)[i] ELSE {}
    IN  [f \in {"text"} \cup keys |->
           IF f \in keys THEN Get(c.metadatas)[i][f] ELSE Plain(c.texts[i])]

\* from_texts, lines 411-414 and 425: only the uuids argument is read.
from_texts_id(c, i, ctr) ==
    IF IsSome(c.uuids) THEN Get(c.uuids)[i] ELSE uuid4(ctr + i - 1)

\* from_texts, lines 431-439
from_texts_object(c, i, ctr, by) ==
    [data_object |-> from_texts_properties(c, i),
     class_name  |-> "Index",
     uuid        |-> from_texts_id(c, i, ctr),
     vector      |-> IF hasEmbedding THEN Some(EmbedDocument(c.texts[i])) ELSE None,
     tenant      |-> None,
     by          |-> by]

\* batch.flush(), also run when the `with` block is left: the accumulated
\* objects go out in one request; an empty batch sends nothing.
Flush(reqs, objs, by) ==
    IF objs = <<>> THEN reqs ELSE Append(reqs, [by |-> by, objects |-> objs])

\* add_texts, lines 147-179, as one call.
AddTexts ==
    /\ ipc = "idle"
    /\ LET n == Len(icall.texts)
           objs == [i \in 1..n |-> add_texts_object(icall, i, uuidCtr + i - 1, 0)]
       IN  /\ flushed' = Flush(flushed, batch \o objs, 0)
           /\ batch' = <<>>
           /\ uuidCtr' = uuidCtr + n
           /\ iout' = [op |-> "add_texts", outcome |-> "ok",
                       ids |-> [i \in 1..n |-> objs[i].uuid],
                       existed |-> indexExists]
    /\ ipc' = "done"
    /\ UNCHANGED <<icall, indexExists, created>>
    /\ UNCHANGED notIng

\* from_texts, lines 397-452, as one call.  Keyword arguments other than
\* uuids reach the constructor (line 451), which accepts none of them.
FromTexts ==
    /\ ipc = "idle"
    /\ LET n == Len(icall.texts)
           objs == [i \in 1..n |-> from_texts_object(icall, i, uuidCtr, 0)]
       IN  /\ flushed' = Flush(flushed, batch \o objs, 0)
           /\ batch' = <<>>
           /\ uuidCtr' = IF IsSome(icall.uuids) THEN uuidCtr ELSE uuidCtr + n
           /\ iout' = [op |-> "from_texts",
                       outcome |-> IF IsSome(icall.ids) \/ IsSome(icall.tenant)
                                     THEN "TypeError" ELSE "ok",
                       ids |-> <<>>,
                       existed |-> indexExists]
    /\ indexExists' = TRUE
    /\ created' = IF indexExists THEN created ELSE created + 1
    /\ ipc' = "done"
    /\ UNCHANGED icall
    /\ UNCHANGED notIng

IngestNext == AddTexts \/ FromTexts

---------------------------------------------------------------------------
\* Two add_texts calls on one store.  Both run `with self._client.batch as
\* batch` (line 154) on the same client, so both append to the same batch
\* and each flushes it when its block ends.

Calls == {1, 2}

\* lines 147-154: the call embeds its texts and enters the block.
ConcEnter(t) ==
    /\ tpc[t] = "start"
    /\ tpc' = [tpc EXCEPT ![t] = "loop"]
    /\ UNCHANGED <<tpos, tids, batch, flushed, uuidCtr>>
    /\ UNCHANGED notConc

\* lines 155-178: one iteration.
ConcAdd(t) ==
    /\ tpc[t] = "loop"
    /\ tpos[t] < Len(icall[t].texts)
    /\ LET obj == add_texts_object(icall[t], tpos[t] + 1, uuidCtr, t)
       IN  /\ batch' = Append(batch, obj)
           /\ tids' = [tids EXCEPT ![t] = Append(@, obj.uuid)]
    /\ uuidCtr' = uuidCtr + 1
    /\ tpos' = [tpos EXCEPT ![t] = @ + 1]
    /\ UNCHANGED <<tpc, flushed>>
    /\ UNCHANGED notConc

\* lines 178-179: the block ends, the batch is flushed, ids is returned.
ConcExit(t) ==
    /\ tpc[t] = "loop"
    /\ tpos[t] = Len(icall[t].texts)
    /\ flushed' = Flush(flushed, batch, t)
    /\ batch' = <<>>
    /\ tpc' = [tpc EXCEPT ![t] = "returned"]
    /\ UNCHANGED <<tpos, tids, uuidCtr>>
    /\ UNCHANGED notConc

ConcNext == \E t \in Calls : ConcEnter(t) \/ ConcAdd(t) \/ ConcExit(t)

---------------------------------------------------------------------------
\* Initial states.  Each specification starts one machine on every input
\* within the bounds and leaves the others idle.

InitDelete ==
    /\ delArg \in {None} \cup {Some(l) : l \in SeqsUpTo(Uuids, MaxIds)}
    /\ delPc = "idle" /\ delIdx = 0 /\ delLog = <<>> /\ delErr = ""
    /\ remote \in SUBSET Uuids
    /\ remote0 = remote
    /\ hasEmbedding = TRUE
    /\ RetIdle /\ IngIdle /\ BatIdle /\ ConcIdle

\* The candidates, k, fetch_k and lambda_mult differ; an embedding function
\* is configured, the service answers without errors and the caller gives
\* no keyword arguments.
InitRetrieval ==
    /\ hasEmbedding = TRUE
    /\ svc \in [pool : SeqsUpTo(Vecs, MaxPool), shape : {"ok"}]
    /\ call \in [query : {"q"}, embedding : QueryVecs, k : 0..MaxK,
                 fetch_k : {2, MaxPool}, lambda_mult : Lambdas,
                 kwargs : {NoKwargs}]
    /\ rpc = "idle" /\ sent = <<>>
    /\ out = [op |-> "", outcome |-> "", errors |-> "", docs |-> <<>>,
              scores |-> <<>>, picked |-> <<>>, payload |-> <<>>]
    /\ DelIdle /\ IngIdle /\ BatIdle /\ ConcIdle

\* The keyword arguments and the shape of the service's answer differ, the
\* candidates are few.
Opt(S) == {None} \cup {Some(v) : v \in S}

InitQuery ==
    /\ hasEmbedding \in BOOLEAN
    /\ svc \in [pool : SeqsUpTo({<<1, 0>>}, 1), shape : Shapes]
    /\ call \in [query : {"q"}, embedding : {<<1, 0>>}, k : {0, 2},
                 fetch_k : {2}, lambda_mult : {5},
                 kwargs : [where_filter : Opt({"w"}),
                           tenant       : Opt({"t"}),
                           additional   : Opt({<<"id">>}),
                           limit        : Opt({0, 1}),
                           query        : Opt({"q2"}),
                           alpha        : Opt({0, 5}),
                           vector       : Opt({<<0, 1>>}),
                           properties   : Opt({<<"text">>}),
                           fusion_type  : Opt({"ranked"})]]
    /\ rpc = "idle" /\ sent = <<>>
    /\ out = [op |-> "", outcome |-> "", errors |-> "", docs |-> <<>>,
              scores |-> <<>>, picked |-> <<>>, payload |-> <<>>]
    /\ DelIdle /\ IngIdle /\ BatIdle /\ ConcIdle

InitIngest ==
    /\ hasEmbedding \in BOOLEAN
    /\ \E texts \in SeqsUpTo(Texts, MaxTexts) :
         LET n == Len(texts) IN
         icall \in [texts     : {texts},
                    metadatas : Opt([1..n -> MetaChoices]),
                    uuids     : Opt({CallerIds("uuids", n)}),
                    ids       : Opt({CallerIds("ids", n)}),
                    tenant    : Opt({"t"})]
    /\ ipc = "idle"
    /\ indexExists \in BOOLEAN
    /\ created = 0
    /\ iout = [op |-> "", outcome |-> "", ids |-> <<>>, existed |-> FALSE]
    /\ BatIdle /\ DelIdle /\ RetIdle /\ ConcIdle

InitConc ==
    /\ hasEmbedding = TRUE
    /\ icall \in [Calls -> [texts     : SeqsUpTo({"a"}, MaxTexts),
                            metadatas : {None},
                            uuids     : {None},
                            ids       : {None},
                            tenant    : {None}]]
    /\ ipc = "off" /\ indexExists = TRUE /\ created = 0
    /\ iout = [op |-> "", outcome |-> "", ids |-> <<>>, existed |-> FALSE]
    /\ tpc = [t \in Calls |-> "start"]
    /\ tpos = [t \in Calls |-> 0]
    /\ tids = [t \in Calls |-> <<>>]
    /\ BatIdle /\ DelIdle /\ RetIdle

---------------------------------------------------------------------------
\* Specifications.

SpecDelete    == InitDelete /\ [][DeleteNext]_vars
SpecRetrieval == InitRetrieval /\ [][RetrievalNext]_vars
SpecQuery     == InitQuery /\ [][RetrievalNext]_vars
Spec          == InitIngest /\ [][IngestNext]_vars
SpecConc      == InitConc /\ [][ConcNext]_vars

---------------------------------------------------------------------------
\* Properties of delete, under SpecDelete.

DelEnded == delPc \in {"returned", "raised", "failed"}

\* C1, as stated: delete with an empty id list or with no ids fails with
\* NoIdsProvided, issues no delete request and leaves the remote index
\* unchanged.
C1_EmptyOrAbsentRaises ==
    (delPc /= "off" /\ (delArg = None \/ delArg = Some(<<>>))) =>
        /\ delLog = <<>>
        /\ remote = remote0
        /\ DelEnded => (delPc = "raised" /\ delErr = "NoIdsProvided")

\* C1, amended: delete with no ids (None) fails with NoIdsProvided; delete
\* with an empty list returns normally; in both cases no delete request is
\* issued and the remote index is unchanged.
C1_AbsentRaisesEmptyReturns ==
    /\ (delArg = None /\ delPc \notin {"off", "idle"}) =>
           (delPc = "raised" /\ delErr = "NoIdsProvided")
    /\ (delArg = Some(<<>>) /\ DelEnded) => (delPc = "returned" /\ delErr = "")
    /\ (delPc /= "off" /\ (delArg = None \/ delArg = Some(<<>>))) =>
           (delLog = <<>> /\ remote = remote0)

C1_Witness == delArg = None /\ delPc = "raised" /\ remote /= {}

\* C8: delete with a non-empty list issues its requests one id at a time in
\* list order; when the i-th fails the call ends with the service's error,
\* nothing is requested for a later id and the ids deleted before stay
\* deleted; when none fails, one request per listed id has been issued at
\* return.
C8_DeleteInOrderNoRollback ==
    (IsSome(delArg) /\ Get(delArg) /= <<>>) =>
        LET ids == Get(delArg) IN
        /\ Len(delLog) <= Len(ids)
        /\ delLog = SubSeq(ids, 1, Len(delLog))
        /\ delErr = "ServiceError" => delPc = "failed"
        /\ delPc = "failed" =>
             /\ delErr = "ServiceError"
             /\ Len(delLog) = delIdx
             /\ \A j \in 1..(delIdx - 1) : ids[j] \notin remote
             /\ ~ENABLED DeleteNext
        /\ delPc = "loop" => Len(delLog) = delIdx - 1
        /\ delPc = "returned" =>
             /\ delLog = ids
             /\ delErr = ""
             /\ \A j \in DOMAIN ids : ids[j] \notin remote

C8_Witness ==
    /\ IsSome(delArg) /\ Len(Get(delArg)) = 3
    /\ delPc = "failed" /\ delIdx = 2
    /\ Get(delArg)[1] \in remote0 /\ Get(delArg)[1] \notin remote

---------------------------------------------------------------------------
\* Properties of MMR retrieval, under SpecRetrieval.

MmrOps == {"max_marginal_relevance_search",
           "max_marginal_relevance_search_by_vector"}

MmrReturned == rpc = "done" /\ out.op \in MmrOps /\ out.outcome = "ok"

\* C2: the MMR selection holds no candidate index twice and at most
\* min(k, number of candidates) indices; the operation returns one document
\* per selected index, built from that candidate, and an empty list when
\* k = 0 or the pool is empty.
C2_MmrDistinctAndBounded ==
    /\ (rpc = "done" /\ out.op = "max_marginal_relevance_search_by_vector")
           => out.outcome = "ok"
    /\ MmrReturned =>
        LET n == Len(out.payload) IN
        /\ Len(out.picked) <= Min(call.k, n)
        /\ \A i \in DOMAIN out.picked : out.picked[i] \in 1..n
        /\ \A i, j \in DOMAIN out.picked : i /= j => out.picked[i] /= out.picked[j]
        /\ Len(out.docs) = Len(out.picked)
        /\ \A i \in DOMAIN out.docs :
             out.docs[i].page_content = out.payload[out.picked[i]]["text"]
        /\ (call.k = 0 \/ n = 0) => out.docs = <<>>

C2_Witness ==
    /\ MmrReturned
    /\ call.k = 2 /\ Len(out.payload) = 3 /\ Len(out.docs) = 2
    /\ out.payload[1]["_additional"]["vector"] = out.payload[2]["_additional"]["vector"]

\* C3: with lambda_mult = 1 the selection is the first min(k, pool size)
\* candidates by descending similarity to the query, the lower index first
\* among equals, and the documents are returned in that order.
C3_LambdaOneIsTopK ==
    (MmrReturned /\ call.lambda_mult = LambdaOne) =>
        LET n == Len(out.payload)
            sim == [i \in 1..n |->
                      cosineSimilarity(call.embedding,
                                       out.payload[i]["_additional"]["vector"])]
            Before(i, j) == sim[i] > sim[j] \/ (sim[i] = sim[j] /\ i < j)
        IN  /\ Len(out.picked) = Min(call.k, n)
            /\ \A a, b \in DOMAIN out.picked :
                 a < b => Before(out.picked[a], out.picked[b])
            /\ \A a \in DOMAIN out.picked :
                 \A m \in (1..n) \ Range(out.picked) : Before(out.picked[a], m)
            /\ Len(out.docs) = Len(out.picked)
            /\ \A i \in DOMAIN out.docs :
                 out.docs[i].page_content = out.payload[out.picked[i]]["text"]

C3_Witness ==
    /\ MmrReturned /\ call.lambda_mult = LambdaOne
    /\ Len(out.docs) = 2 /\ Len(out.payload) = 3
    /\ out.picked[1] > out.picked[2]

---------------------------------------------------------------------------
\* Properties of the retrieval operations, under SpecQuery.

\* C6, as stated: when the service's answer reports a failure, the
\* operation ends in ServiceError carrying the service's errors, returns no
\* documents and has sent exactly one request.
C6_ServiceErrorSurfaces ==
    (rpc = "done" /\ sent /= <<>> /\ svc.shape /= "ok") =>
        /\ out.outcome = "ServiceError"
        /\ out.errors = ServiceErrors
        /\ out.docs = <<>>
        /\ Len(sent) = 1

\* A record's fields once the raw vector is taken out of its _additional
\* entry; an _additional entry left empty is dropped.
WithoutVector(res) ==
    LET rest == Pop(res["_additional"], "vector") IN
    IF DOMAIN rest = {} THEN Pop(res, "_additional")
    ELSE [res EXCEPT !["_additional"] = rest]

\* C7, as stated: every document has the record's text field as content and
\* the record's remaining fields as metadata, except that the raw vector
\* fetched for MMR is not in the metadata of MMR documents; the score
\* requested by similarity_search_with_score is in the metadata and equals
\* the score paired with the document.
C7_DecodeKeepsRemainingFields ==
    (rpc = "done" /\ out.outcome = "ok") =>
        \A i \in DOMAIN out.docs :
            LET res == out.payload[out.picked[i]]
                doc == out.docs[i]
            IN  /\ doc.page_content = res["text"]
                /\ DOMAIN doc.metadata =
                     DOMAIN (IF out.op \in MmrOps THEN WithoutVector(Pop(res, "text"))
                             ELSE Pop(res, "text"))
                /\ doc.metadata =
                     (IF out.op \in MmrOps THEN WithoutVector(Pop(res, "text"))
                      ELSE Pop(res, "text"))
                /\ out.op = "similarity_search_with_score" =>
                     /\ "_additional" \in DOMAIN doc.metadata
                     /\ doc.metadata["_additional"]["score"] = out.scores[i]

\* What the caller supplied for each hybrid argument: the keyword argument,
\* or the query text and its embedding in the operations that take a text.
TextOps == {"similarity_search", "similarity_search_with_score"}

Supplied(a) ==
    IF out.op \in TextOps /\ a = "query" THEN Some(call.query)
    ELSE IF out.op \in TextOps /\ a = "vector" THEN Some(call.embedding)
    ELSE call.kwargs[a]

\* C10, as stated: the query sent carries every modifier the caller
\* supplied with exactly the supplied value, alpha = 0 and a limit of 0
\* included.
C10_ModifiersPassThrough ==
    (rpc = "done" /\ sent /= <<>>) =>
        LET q == sent[1]
            kw == call.kwargs
        IN  /\ IsSome(kw["where_filter"]) => q.where = kw["where_filter"]
            /\ IsSome(kw["tenant"]) => q.tenant = kw["tenant"]
            /\ IsSome(kw["additional"]) =>
                 Range(Get(kw["additional"])) \subseteq q.additional
            /\ out.op \in TextOps => q.limit = Some(call.k)
            /\ \A a \in HybridArgs :
                 IsSome(Supplied(a)) =>
                     (IsSome(q.hybrid) /\ Get(q.hybrid)[a] = Supplied(a))

---------------------------------------------------------------------------
\* Properties of ingestion, under Spec.

RECURSIVE Flatten(_)
Flatten(reqs) ==
    IF reqs = <<>> THEN <<>> ELSE Head(reqs).objects \o Flatten(Tail(reqs))

\* The objects sent to the service so far, in order.
Submitted == Flatten(flushed)

\* C4: add_texts over n texts returns n ids in input order; the i-th is the
\* id under which the i-th text was submitted: the caller's when uuids or
\* ids are supplied, otherwise a fresh uuid4 value.
C4_AddTextsReturnsSubmittedIds ==
    (ipc = "done" /\ iout.op = "add_texts") =>
        LET n == Len(icall.texts) IN
        /\ iout.outcome = "ok"
        /\ Len(iout.ids) = n
        /\ Len(Submitted) = n
        /\ \A i \in 1..n :
             /\ Submitted[i].uuid = iout.ids[i]
             /\ Submitted[i].data_object["text"] = Plain(icall.texts[i])
             /\ IsSome(icall.uuids) => iout.ids[i] = Get(icall.uuids)[i]
             /\ (~IsSome(icall.uuids) /\ IsSome(icall.ids)) =>
                    iout.ids[i] = Get(icall.ids)[i]
             /\ (~IsSome(icall.uuids) /\ ~IsSome(icall.ids)) =>
                    /\ iout.ids[i].src = "uuid4"
                    /\ \A j \in 1..n : j /= i => iout.ids[j] /= iout.ids[i]

C4_Witness ==
    /\ ipc = "done" /\ iout.op = "add_texts"
    /\ Len(icall.texts) = 2
    /\ IsSome(icall.ids) /\ ~IsSome(icall.uuids)
    /\ iout.ids = Get(icall.ids)

\* C5, as stated: from_texts creates the index only when it does not exist
\* and then inserts what add_texts would insert for the same arguments:
\* same id precedence, same embeddings, same metadata serialization.
C5_FromTextsIsCreateThenAddTexts ==
    (ipc = "done" /\ iout.op = "from_texts") =>
        LET n == Len(icall.texts) IN
        /\ created = (IF iout.existed THEN 0 ELSE 1)
        /\ indexExists
        /\ Len(Submitted) = n
        /\ \A i \in 1..n :
             LET want == add_texts_object(icall, i, 0, 0) IN
             /\ DOMAIN Submitted[i].data_object = DOMAIN want.data_object
             /\ Submitted[i].data_object = want.data_object
             /\ Submitted[i].vector = want.vector
             /\ (IsSome(icall.uuids) \/ IsSome(icall.ids)) =>
                    Submitted[i].uuid = want.uuid

---------------------------------------------------------------------------
\* Properties of concurrent add_texts calls, under SpecConc.

\* C9, as stated: each insertion request holds exactly the records of the
\* call that flushed it, and when a call returns all its records have been
\* sent.
C9_CallsFlushOnlyTheirOwn ==
    /\ \A r \in DOMAIN flushed :
         \A o \in DOMAIN flushed[r].objects :
             flushed[r].objects[o].by = flushed[r].by
    /\ \A t \in DOMAIN tpc :
         tpc[t] = "returned" =>
             Cardinality({o \in DOMAIN Submitted : Submitted[o].by = t})
                 = Len(icall[t].texts)

=============================================================================
